---- MODULE Spec2Model ----
(***************************************************************************)
(* Certus advisor assistant: the chunked retrieval pipeline.               *)
(*                                                                         *)
(* Texts are sequences of one-character strings, so that the chunker, the  *)
(* keyword match and the id formatting are computed character by           *)
(* character as the Python code computes them.  The long built-in snippets *)
(* of utils.py are texts of a single fragment (their first words).         *)
(***************************************************************************)
EXTENDS Integers, Sequences, FiniteSets, TLC

(***************************************************************************)
(* Bounds of the model.                                                    *)
(***************************************************************************)
\* longest text handed to the chunker in SpecChunk
MaxLen == 7
\* largest max_tokens handed to the chunker in SpecChunk
MaxBudget == 1
\* the chunk budget of the upload handler (utils.py:57 sets 500; scaled to
\* the short documents of the model)
UploadMaxTokens == 1
\* the chunk budget of backend/app.py (line 156 sets 3000; scaled likewise)
BackendMaxTokens == 4
\* max_context_length of generate_response (utils.py:242 sets 3000; scaled
\* likewise)
MaxContextTokens == 3
\* the longest chat history of SpecChat
MaxHistory == 4
\* the latest reading of the clock in SpecJourney
MaxTime == 2

(***************************************************************************)
(* Characters and strings.                                                 *)
(***************************************************************************)
LF == "\n"
Alphabet == {"a", ".", " ", LF}

\* Python's \s on the characters of the model
IsSpace(c) == c \in {" ", LF, "\t"}

\* the characters after which re.split(r'(?<=[.!?])\s+') splits
IsSentenceEnd(c) == c \in {".", "!", "?"}

RECURSIVE TextsOfLen(_)
TextsOfLen(n) ==
    IF n = 0 THEN {<<>>}
    ELSE {Append(t, c) : t \in TextsOfLen(n - 1), c \in Alphabet}

TextsUpTo(n) == UNION {TextsOfLen(k) : k \in 0..n}

\* str.lstrip() / str.rstrip() / str.strip()
RECURSIVE LStrip(_)
LStrip(s) ==
    IF s # <<>> /\ IsSpace(Head(s)) THEN LStrip(Tail(s)) ELSE s

RECURSIVE RStrip(_)
RStrip(s) ==
    IF s # <<>> /\ IsSpace(s[Len(s)]) THEN RStrip(SubSeq(s, 1, Len(s) - 1)) ELSE s

Strip(s) == RStrip(LStrip(s))

\* re.sub(r'\s+', ' ', text): every maximal run of whitespace becomes one space
RECURSIVE CollapseWs(_, _)
CollapseWs(s, out) ==
    IF s = <<>> THEN out
    ELSE IF IsSpace(Head(s))
         THEN CollapseWs(LStrip(s), Append(out, " "))
         ELSE CollapseWs(Tail(s), Append(out, Head(s)))

Normalize(text) == Strip(CollapseWs(text, <<>>))

\* str.split('\n\n'): cut at every non-overlapping occurrence, left to right
RECURSIVE SplitParagraphs(_, _)
SplitParagraphs(s, cur) ==
    IF s = <<>> THEN <<cur>>
    ELSE IF Len(s) >= 2 /\ s[1] = LF /\ s[2] = LF
         THEN <<cur>> \o SplitParagraphs(SubSeq(s, 3, Len(s)), <<>>)
         ELSE SplitParagraphs(Tail(s), Append(cur, Head(s)))

\* what the lookbehind sees before the first character
NoChar == ""

\* re.split(r'(?<=[.!?])\s+', chunk): cut at every run of whitespace that
\* follows '.', '!' or '?'; prev is the character before s
RECURSIVE SplitSentences(_, _, _)
SplitSentences(s, cur, prev) ==
    IF s = <<>> THEN <<cur>>
    ELSE IF IsSpace(Head(s)) /\ IsSentenceEnd(prev)
         THEN <<cur>> \o SplitSentences(LStrip(s), <<>>, " ")
         ELSE SplitSentences(Tail(s), Append(cur, Head(s)), Head(s))

(***************************************************************************)
(* utils.py: count_tokens and split_text_into_chunks.                      *)
(***************************************************************************)
CharsPerToken == 4

count_tokens(text) == Len(text) \div CharsPerToken

\* the accumulate loop of lines 67-77 and of lines 85-92: units are joined by
\* one space while the estimate of the joined text stays within max_tokens
\* the loop with the budget tested on the current chunk alone
RECURSIVE AccumulateTestsCurrent(_, _, _, _)
AccumulateTestsCurrent(units, current, out, max_tokens) ==
    IF units = <<>>
    THEN IF current # <<>> THEN Append(out, Strip(current)) ELSE out
    ELSE LET u == Head(units) IN
         IF count_tokens(current) > max_tokens /\ current # <<>>
         THEN AccumulateTestsCurrent(Tail(units), u, Append(out, Strip(current)), max_tokens)
         ELSE AccumulateTestsCurrent(Tail(units),
                         IF current # <<>> THEN current \o <<" ">> \o u ELSE u,
                         out, max_tokens)

\* the loop that starts the next chunk empty when it flushes
RECURSIVE AccumulateDropsUnit(_, _, _, _)
AccumulateDropsUnit(units, current, out, max_tokens) ==
    IF units = <<>>
    THEN IF current # <<>> THEN Append(out, Strip(current)) ELSE out
    ELSE LET u == Head(units) IN
         IF count_tokens(current \o <<" ">> \o u) > max_tokens /\ current # <<>>
         THEN AccumulateDropsUnit(Tail(units), <<>>, Append(out, Strip(current)), max_tokens)
         ELSE AccumulateDropsUnit(Tail(units),
                         IF current # <<>> THEN current \o <<" ">> \o u ELSE u,
                         out, max_tokens)

\* the loop that closes the chunk after every unit
RECURSIVE AccumulateEachUnit(_, _, _, _)
AccumulateEachUnit(units, current, out, max_tokens) ==
    IF units = <<>>
    THEN IF current # <<>> THEN Append(out, Strip(current)) ELSE out
    ELSE LET u == Head(units) IN
         IF current # <<>>
         THEN AccumulateEachUnit(Tail(units), u, Append(out, Strip(current)), max_tokens)
         ELSE AccumulateEachUnit(Tail(units), u, out, max_tokens)

RECURSIVE Accumulate(_, _, _, _)
Accumulate(units, current, out, max_tokens) ==
    IF units = <<>>
    THEN IF current # <<>> THEN Append(out, Strip(current)) ELSE out
    ELSE LET u == Head(units) IN
         IF count_tokens(current \o <<" ">> \o u) > max_tokens /\ current # <<>>
         THEN Accumulate(Tail(units), u, Append(out, Strip(current)), max_tokens)
         ELSE Accumulate(Tail(units),
                         IF current # <<>> THEN current \o <<" ">> \o u ELSE u,
                         out, max_tokens)

\* lines 80-94: a chunk over the budget is split again by sentences
RECURSIVE Resplit(_, _)
Resplit(chunks, max_tokens) ==
    IF chunks = <<>> THEN <<>>
    ELSE LET chunk == Head(chunks) IN
         (IF count_tokens(chunk) > max_tokens
          THEN Accumulate(SplitSentences(chunk, <<>>, NoChar), <<>>, <<>>, max_tokens)
          ELSE <<chunk>>)
         \o Resplit(Tail(chunks), max_tokens)

split_text_into_chunks(text, max_tokens) ==
    LET norm       == Normalize(text)
        paragraphs == SplitParagraphs(norm, <<>>)
        chunks     == Accumulate(paragraphs, <<>>, <<>>, max_tokens)
    IN  Resplit(chunks, max_tokens)

(***************************************************************************)
(* Strings of the retriever: str.lower(), the `in` substring test and      *)
(* str(i).                                                                 *)
(***************************************************************************)
UpperCase == <<"A","B","C","D","E","F","G","H","I","J","K","L","M",
               "N","O","P","Q","R","S","T","U","V","W","X","Y","Z">>
LowerCase == <<"a","b","c","d","e","f","g","h","i","j","k","l","m",
               "n","o","p","q","r","s","t","u","v","w","x","y","z">>

LowerChar(c) ==
    IF \E i \in 1..Len(UpperCase) : UpperCase[i] = c
    THEN LowerCase[CHOOSE i \in 1..Len(UpperCase) : UpperCase[i] = c]
    ELSE c

\* str.lower()
Lower(s) == [i \in 1..Len(s) |-> LowerChar(s[i])]

\* needle in hay
Contains(hay, needle) ==
    \E i \in 1..(Len(hay) - Len(needle) + 1) :
        SubSeq(hay, i, i + Len(needle) - 1) = needle

\* sep.join(parts)
RECURSIVE Join(_, _)
Join(sep, parts) ==
    IF parts = <<>> THEN <<>>
    ELSE IF Len(parts) = 1 THEN parts[1]
    ELSE parts[1] \o sep \o Join(sep, Tail(parts))

DigitChar == <<"0","1","2","3","4","5","6","7","8","9">>

\* str(i) for i >= 0
RECURSIVE Str(_)
Str(i) ==
    IF i < 10 THEN <<DigitChar[i + 1]>>
    ELSE Str(i \div 10) \o <<DigitChar[(i % 10) + 1]>>

KwMortgage  == <<"m","o","r","t","g","a","g","e">>
KwInsurance == <<"i","n","s","u","r","a","n","c","e">>

(***************************************************************************)
(* The built-in snippets of retrieve_relevant_chunks (utils.py:152-240).   *)
(***************************************************************************)
TxtMortgage1  == <<"HomeProtector mortgage life insurance provides coverage for your mortgage in case of death.">>
TxtMortgage2  == <<"If you become disabled and are unable to work, HomeProtector disability insurance can help">>
TxtMortgage3  == <<"Critical illness insurance provides a lump sum payment that is applied directly to your mortgage">>
TxtInsurance1 == <<"RBC HomeProtector Insurance offers three types of coverage: life, disability, and critical illness.">>
TxtInsurance2 == <<"Premium rates for HomeProtector life insurance range from $0.10 to $1.63 per $1,000">>
TxtInsurance3 == <<"To be eligible for HomeProtector insurance, you must be a Canadian resident">>
TxtGeneral1   == <<"RBC offers various mortgage terms from 6 months to 10 years">>
TxtGeneral2   == <<"When interest rates increase, your mortgage payments will also increase">>
TxtTrouble1   == <<"I'm currently having trouble accessing my knowledge base.">>
TxtTrouble2   == <<"RBC HomeProtector Insurance offers protection for your mortgage">>
TxtTrouble3   == <<"You can ask me about mortgage terms, insurance eligibility, or payment calculations">>

SrcDefault == <<"default">>

default_docs ==
    << [id |-> <<"default-mortgage-1">>,  content |-> TxtMortgage1,  source |-> SrcDefault],
       [id |-> <<"default-mortgage-2">>,  content |-> TxtMortgage2,  source |-> SrcDefault],
       [id |-> <<"default-mortgage-3">>,  content |-> TxtMortgage3,  source |-> SrcDefault],
       [id |-> <<"default-insurance-1">>, content |-> TxtInsurance1, source |-> SrcDefault],
       [id |-> <<"default-insurance-2">>, content |-> TxtInsurance2, source |-> SrcDefault],
       [id |-> <<"default-insurance-3">>, content |-> TxtInsurance3, source |-> SrcDefault],
       [id |-> <<"default-general-1">>,   content |-> TxtGeneral1,   source |-> SrcDefault],
       [id |-> <<"default-general-2">>,   content |-> TxtGeneral2,   source |-> SrcDefault] >>

MortgageFallback  == <<TxtMortgage1, TxtMortgage2, TxtMortgage3>>
InsuranceFallback == <<TxtInsurance1, TxtInsurance2, TxtInsurance3>>
GenericFallback   == <<TxtGeneral1, TxtGeneral2>>
TroubleFallback   == <<TxtTrouble1, TxtTrouble2, TxtTrouble3>>

\* lines 216-232: the snippet set chosen by keyword
KeywordFallback(query) ==
    IF Contains(Lower(query), KwMortgage) THEN MortgageFallback
    ELSE IF Contains(Lower(query), KwInsurance) THEN InsuranceFallback
    ELSE GenericFallback

DefaultTopK == 5

(***************************************************************************)
(* State.                                                                  *)
(***************************************************************************)
VARIABLES
    \* the chunker called on its own (SpecChunk)
    cText, cMax, cChunks, cPc,
    \* utils.py: the module-level client is a real client (TRUE) or the
    \* DummyClient of lines 41-46 (FALSE)
    clientOk,
    \* the collection COLLECTION_NAME exists, and its entries in insertion order
    collExists, index,
    \* DOCS_DIR: file name -> text of the file
    docsDir,
    \* what the last call (upload_and_process_document or
    \* retrieve_relevant_chunks) was given and what it returned
    last,
    \* per file name: the file was overwritten with a different text, some
    \* upload of it returned success, its latest upload returned success
    changed, ingested, latestOk,
    \* backend/app.py: the docs folder, the collection's entries, the
    \* st.cache_data store of retrieve_relevant_chunks and the last call
    bDir, bIndex, bCache, bLast,
    \* app.py: st.session_state.chat_history and .last_input, and the last
    \* call of generate_response: the documents it was given, whether it
    \* called the language model and the context it put into the prompt
    chat_history, last_input, synth,
    \* utils.py under concurrent callers: per caller the function it runs,
    \* the line it has reached and what it returned
    procs,
    \* app.py: st.session_state.mortgage_journey, the reading of
    \* datetime.now(), and the last protection advice computed for a
    \* mortgage type and a journey stage
    journey, now, advice

chunkVars == <<cText, cMax, cChunks, cPc>>
mainVars  == <<clientOk, collExists, index, docsDir, last, changed, ingested,
               latestOk>>
backendVars == <<bDir, bIndex, bCache, bLast>>
chatVars == <<chat_history, last_input, synth>>
raceVars == <<procs>>
journeyVars == <<journey, now, advice>>
vars == <<chunkVars, mainVars, backendVars, chatVars, raceVars, journeyVars>>

(***************************************************************************)
(* The vector store (chromadb collection) and the embedding model, as the  *)
(* calls of utils.py use them.                                             *)
(***************************************************************************)
IdsOf(idx) == {idx[i].id : i \in 1..Len(idx)}

TextsOf(entries) == [i \in 1..Len(entries) |-> entries[i].text]

RECURSIVE SelectSeq2(_, _)
SelectSeq2(entries, present) ==
    IF entries = <<>> THEN <<>>
    ELSE (IF Head(entries).id \in present THEN <<>> ELSE <<Head(entries)>>)
         \o SelectSeq2(Tail(entries), present)

\* an add that appends every entry of the batch, held already or not
collection_add_appends(idx, entries, policy) ==
    IF entries = <<>>
    THEN [raised |-> TRUE, index |-> idx]
    ELSE [raised |-> FALSE, index |-> idx \o entries]

\* collection.add(ids=..., embeddings=..., documents=..., metadatas=...):
\* raises on an empty batch and on a batch that repeats an id; ids the
\* collection already holds are refused (the whole add raises) or skipped,
\* by the store's policy; an existing entry is never overwritten
collection_add(idx, entries, policy) ==
    IF entries = <<>>
    THEN [raised |-> TRUE, index |-> idx]
    ELSE IF Cardinality(IdsOf(entries)) # Len(entries)
    THEN [raised |-> TRUE, index |-> idx]
    ELSE IF IdsOf(entries) \cap IdsOf(idx) # {} /\ policy = "raise"
    THEN [raised |-> TRUE, index |-> idx]
    ELSE [raised |-> FALSE, index |-> idx \o SelectSeq2(entries, IdsOf(idx))]

\* model.encode(text): the embedding of a text
Embed(text) == Len(text)

Distance(v, w) == IF v >= w THEN v - w ELSE w - v

\* the k entries nearest to the query vector, nearest first, the older entry
\* first among equally near ones
RECURSIVE Nearest(_, _, _, _)
Nearest(idx, rest, qvec, k) ==
    IF k = 0 \/ rest = {} THEN <<>>
    ELSE LET best == CHOOSE i \in rest :
                        \A j \in rest :
                           \/ Distance(qvec, Embed(idx[i].text)) < Distance(qvec, Embed(idx[j].text))
                           \/ /\ Distance(qvec, Embed(idx[i].text)) = Distance(qvec, Embed(idx[j].text))
                              /\ i <= j
         IN  <<idx[best]>> \o Nearest(idx, rest \ {best}, qvec, k - 1)

EmptyShapes == {"lists", "nodocs", "raise"}
AddPolicies == {"raise", "skip"}

\* collection.query(query_embeddings=[v], n_results=top_k): results['documents']
\* holds one list of texts per query; on an empty collection the store
\* answers with one empty list ("lists"), with no documents ("nodocs") or
\* raises ("raise")
collection_query(idx, qvec, top_k, shape, fails) ==
    IF fails \/ (idx = <<>> /\ shape = "raise")
    THEN [raised |-> TRUE, documents |-> <<>>, hits |-> <<>>]
    ELSE IF idx = <<>> /\ shape = "nodocs"
    THEN [raised |-> FALSE, documents |-> <<>>, hits |-> <<>>]
    ELSE LET hits == Nearest(idx, 1..Len(idx), qvec, top_k)
         IN  [raised |-> FALSE, documents |-> <<TextsOf(hits)>>, hits |-> hits]

(***************************************************************************)
(* utils.py: initialize_db (lines 107-138).                                *)
(***************************************************************************)
\* lines 119-121 and 127-132: the entries handed to collection.add
EntriesOf(documents) ==
    [i \in 1..Len(documents) |->
        [id |-> documents[i].id, text |-> documents[i].content,
         source |-> documents[i].source]]

\* a body that encodes and adds the documents one at a time
initialize_db_body_interleaved(documents, cOk, exists, idx, policy, failAt) ==
    IF ~cOk
    THEN [raised |-> TRUE, ok |-> FALSE, exists |-> exists, index |-> idx]
    ELSE IF failAt \in 1..Len(documents)
    THEN [raised |-> TRUE, ok |-> FALSE, exists |-> TRUE,
          index |-> IF failAt = 1 THEN idx
                    ELSE collection_add(idx,
                             SubSeq(EntriesOf(documents), 1, failAt - 1),
                             policy).index]
    ELSE LET added == collection_add(idx, EntriesOf(documents), policy)
         IN  [raised |-> added.raised, ok |-> ~added.raised, exists |-> TRUE,
              index |-> added.index]

\* lines 110-135, the body of the try: whether it raised, the boolean it
\* returned and the collection afterwards.  failAt is the position of the
\* document whose model.encode raises (0: none does)
initialize_db_body(documents, cOk, exists, idx, policy, failAt) ==
    IF ~cOk
    THEN \* get_collection and create_collection of the DummyClient raise
         [raised |-> TRUE, ok |-> FALSE, exists |-> exists, index |-> idx]
    ELSE IF failAt \in 1..Len(documents)
    THEN \* line 124 raises before line 127 is reached; the collection was
         \* created at line 115
         [raised |-> TRUE, ok |-> FALSE, exists |-> TRUE, index |-> idx]
    ELSE LET added == collection_add(idx, EntriesOf(documents), policy)
         IN  [raised |-> added.raised, ok |-> ~added.raised, exists |-> TRUE,
              index |-> added.index]

\* an except clause that lets the exception through
initialize_db_except_reraise(b) == b

\* lines 136-138: the except clause prints and returns False
initialize_db_except(b) ==
    IF b.raised THEN [b EXCEPT !.raised = FALSE, !.ok = FALSE] ELSE b

\* an initialize_db that empties the collection before it adds
initialize_db_recreates(documents, cOk, exists, idx, policy, failAt) ==
    IF ~cOk
    THEN [raised |-> FALSE, ok |-> FALSE, exists |-> exists, index |-> idx]
    ELSE IF failAt \in 1..Len(documents)
    THEN [raised |-> FALSE, ok |-> FALSE, exists |-> TRUE, index |-> idx]
    ELSE LET added == collection_add(<<>>, EntriesOf(documents), policy)
         IN  [raised |-> FALSE, ok |-> ~added.raised, exists |-> TRUE,
              index |-> added.index]

initialize_db(documents, cOk, exists, idx, policy, failAt) ==
    initialize_db_except(
        initialize_db_body(documents, cOk, exists, idx, policy, failAt))

(***************************************************************************)
(* utils.py: retrieve_relevant_chunks (lines 140-240).                     *)
(***************************************************************************)
\* the body with a result of fewer than top_k texts filled up from the
\* keyword snippets
retrieve_body_padded(query, top_k, cOk, exists, idx, env) ==
    LET cold   == ~(cOk /\ exists)
        seeded == IF cold /\ cOk
                  THEN initialize_db(default_docs, cOk, TRUE, idx, env.policy,
                                     IF env.seedFails THEN 1 ELSE 0)
                  ELSE [ok |-> FALSE, exists |-> exists, index |-> idx]
        res    == collection_query(seeded.index, Embed(query), top_k,
                                   env.shape, env.queryFails)
        base   == [raised |-> FALSE, failed |-> FALSE, value |-> <<>>,
                   path |-> "none",
                   hits |-> <<>>, size |-> Len(seeded.index), cold |-> cold,
                   exists |-> seeded.exists, index |-> seeded.index]
    IN  IF ~cOk
        THEN [base EXCEPT !.raised = TRUE, !.failed = TRUE]
        ELSE IF env.embedFails \/ res.raised
        THEN [base EXCEPT !.raised = TRUE, !.failed = TRUE]
        ELSE IF res.documents # <<>>
        THEN [base EXCEPT !.value = IF Len(res.documents[1]) < top_k
                                    THEN res.documents[1] \o KeywordFallback(query)
                                    ELSE res.documents[1],
                          !.path = "hits",
                          !.hits = [i \in 1..Len(res.hits) |-> res.hits[i].id]]
        ELSE [base EXCEPT !.value = KeywordFallback(query), !.path = "keyword"]

\* the body with a query that does not pass n_results
retrieve_body_no_limit(query, top_k, cOk, exists, idx, env) ==
    LET cold   == ~(cOk /\ exists)
        seeded == IF cold /\ cOk
                  THEN initialize_db(default_docs, cOk, TRUE, idx, env.policy,
                                     IF env.seedFails THEN 1 ELSE 0)
                  ELSE [ok |-> FALSE, exists |-> exists, index |-> idx]
        res    == collection_query(seeded.index, Embed(query),
                                   Len(seeded.index),
                                   env.shape, env.queryFails)
        base   == [raised |-> FALSE, failed |-> FALSE, value |-> <<>>,
                   path |-> "none",
                   hits |-> <<>>, size |-> Len(seeded.index), cold |-> cold,
                   exists |-> seeded.exists, index |-> seeded.index]
    IN  IF ~cOk
        THEN \* get_collection raises, then create_collection raises
             [base EXCEPT !.raised = TRUE, !.failed = TRUE]
        ELSE IF env.embedFails \/ res.raised
        THEN [base EXCEPT !.raised = TRUE, !.failed = TRUE]
        ELSE IF res.documents # <<>>
        THEN [base EXCEPT !.value = res.documents[1], !.path = "hits",
                          !.hits = [i \in 1..Len(res.hits) |-> res.hits[i].id]]
        ELSE [base EXCEPT !.value = KeywordFallback(query), !.path = "keyword"]

\* a body that answers a call on a missing collection from the built-in
\* snippets instead of querying the collection it has just seeded
retrieve_body_cold_fallback(query, top_k, cOk, exists, idx, env) ==
    LET cold   == ~(cOk /\ exists)
        seeded == IF cold /\ cOk
                  THEN initialize_db(default_docs, cOk, TRUE, idx, env.policy,
                                     IF env.seedFails THEN 1 ELSE 0)
                  ELSE [ok |-> FALSE, exists |-> exists, index |-> idx]
        res    == collection_query(seeded.index, Embed(query), top_k,
                                   env.shape, env.queryFails)
        base   == [raised |-> FALSE, failed |-> FALSE, value |-> <<>>,
                   path |-> "none",
                   hits |-> <<>>, size |-> Len(seeded.index), cold |-> cold,
                   exists |-> seeded.exists, index |-> seeded.index]
    IN  IF ~cOk
        THEN [base EXCEPT !.raised = TRUE, !.failed = TRUE]
        ELSE IF env.embedFails \/ res.raised
        THEN [base EXCEPT !.raised = TRUE, !.failed = TRUE]
        ELSE IF res.documents # <<>> /\ ~cold
        THEN [base EXCEPT !.value = res.documents[1], !.path = "hits",
                          !.hits = [i \in 1..Len(res.hits) |-> res.hits[i].id]]
        ELSE [base EXCEPT !.value = KeywordFallback(query), !.path = "keyword"]

\* lines 143-232, the body of the outer try.  env.seedFails, env.embedFails
\* and env.queryFails say which calls raise: model.encode inside
\* initialize_db, model.encode(query), collection.query
retrieve_body(query, top_k, cOk, exists, idx, env) ==
    LET cold   == ~(cOk /\ exists)
        seeded == IF cold /\ cOk
                  THEN initialize_db(default_docs, cOk, TRUE, idx, env.policy,
                                     IF env.seedFails THEN 1 ELSE 0)
                  ELSE [ok |-> FALSE, exists |-> exists, index |-> idx]
        res    == collection_query(seeded.index, Embed(query), top_k,
                                   env.shape, env.queryFails)
        base   == [raised |-> FALSE, failed |-> FALSE, value |-> <<>>,
                   path |-> "none",
                   hits |-> <<>>, size |-> Len(seeded.index), cold |-> cold,
                   exists |-> seeded.exists, index |-> seeded.index]
    IN  IF ~cOk
        THEN \* get_collection raises, then create_collection raises
             [base EXCEPT !.raised = TRUE, !.failed = TRUE]
        ELSE IF env.embedFails \/ res.raised
        THEN [base EXCEPT !.raised = TRUE, !.failed = TRUE]
        ELSE IF res.documents # <<>>
        THEN [base EXCEPT !.value = res.documents[1], !.path = "hits",
                          !.hits = [i \in 1..Len(res.hits) |-> res.hits[i].id]]
        ELSE [base EXCEPT !.value = KeywordFallback(query), !.path = "keyword"]

\* an except clause that lets the exception through
retrieve_except_reraise(b) == b

\* lines 233-240: the except clause of the outer try
retrieve_except(b) ==
    IF b.raised
    THEN [b EXCEPT !.raised = FALSE, !.value = TroubleFallback, !.path = "trouble"]
    ELSE b

retrieve_relevant_chunks(query, top_k, cOk, exists, idx, env) ==
    retrieve_except(retrieve_body(query, top_k, cOk, exists, idx, env))

(***************************************************************************)
(* app.py: upload_and_process_document (lines 282-320).                    *)
(***************************************************************************)
ChunkSep == <<"-chunk-">>

\* an id without the file name
ChunkIdNoName(name, i) == <<"chunk-">> \o Str(i)

\* line 309: f"{uploaded_file.name}-chunk-{i}"
ChunkId(name, i) == name \o ChunkSep \o Str(i)

\* lines 306-312; enumerate counts from 0
UploadDocuments(name, chunks) ==
    [k \in 1..Len(chunks) |->
        [id |-> ChunkId(name, k - 1), content |-> chunks[k], source |-> name]]

(***************************************************************************)
(* Inputs of the model.                                                    *)
(***************************************************************************)
NameA == <<"a.pdf">>
NameB == <<"b.pdf">>
Names == {NameA, NameB}

\* "xxx. yyy." and "zzzz."
DocV1 == <<"x","x","x","."," ","y","y","y",".">>
DocV2 == <<"z","z","z","z",".">>
DocTexts == {DocV1, DocV2}

QEmpty     == <<>>
QMortgage  == <<"M","o","r","t","g","a","g","e","s">>
QInsurance == <<"i","n","s","u","r","a","n","c","e">>
QRates     == <<"r","a","t","e","s">>
Queries == {QEmpty, QMortgage, QInsurance}

TopKs == {DefaultTopK}

\* what a call meets: the store's policy for ids it already holds, its answer
\* on an empty collection, and the calls that raise
\* failAt: the position of the chunk of an upload whose model.encode raises
Env(policy, shape, seedFails, embedFails, queryFails, failAt) ==
    [policy |-> policy, shape |-> shape, seedFails |-> seedFails,
     embedFails |-> embedFails, queryFails |-> queryFails, failAt |-> failAt]

\* no chunk, the first chunk or the second chunk of an upload fails to embed
FailPositions == {0, 1, 2}

UploadEnvs ==
    {Env(p, "lists", FALSE, FALSE, FALSE, k) :
        p \in AddPolicies, k \in FailPositions}

RetrieveEnvs ==
    {Env("skip", sh, sf, FALSE, FALSE, 0) : sh \in EmptyShapes, sf \in BOOLEAN}
    \cup {Env("skip", "lists", FALSE, TRUE, FALSE, 0),
          Env("skip", "lists", FALSE, FALSE, TRUE, 0)}

NoFile == <<"<no file>">>

NoCall == [op |-> "none", name |-> <<>>, text |-> <<>>, ids |-> <<>>,
           success |-> FALSE, query |-> <<>>, top_k |-> 0, raised |-> FALSE,
           value |-> <<>>, path |-> "none", hits |-> <<>>, before |-> 0,
           size |-> 0, cold |-> FALSE, failed |-> FALSE]

(***************************************************************************)
(* backend/app.py: the earlier variant of the pipeline.  The collection    *)
(* is opened at import (get_or_create_collection), every upload reloads    *)
(* the whole docs folder, and retrieve_relevant_chunks is wrapped in       *)
(* st.cache_data.                                                          *)
(***************************************************************************)
\* tiktoken's encode and decode, one token per character
encode(text) == text
decode(tokens) == tokens

\* backend/app.py:156-164
RECURSIVE TokenWindows(_, _)
TokenWindows(tokens, max_tokens) ==
    IF Len(tokens) = 0 THEN <<>>
    ELSE <<decode(SubSeq(tokens, 1, IF Len(tokens) < max_tokens
                                    THEN Len(tokens) ELSE max_tokens))>>
         \o TokenWindows(SubSeq(tokens, max_tokens + 1, Len(tokens)), max_tokens)

backend_split_text_into_chunks(text, max_tokens) ==
    TokenWindows(encode(text), max_tokens)

\* backend/app.py:151-154 and backend/main.py:24-27: len(encoding.encode(text))
backend_count_tokens(text) == Len(encode(text))

(***************************************************************************)
(* backend/main.py: the chunker of the first script (lines 30-48).         *)
(***************************************************************************)
\* str.split(". "): cut at every non-overlapping occurrence, left to right
RECURSIVE SplitDotSpace(_, _)
SplitDotSpace(s, cur) ==
    IF s = <<>> THEN <<cur>>
    ELSE IF Len(s) >= 2 /\ s[1] = "." /\ s[2] = " "
         THEN <<cur>> \o SplitDotSpace(SubSeq(s, 3, Len(s)), <<>>)
         ELSE SplitDotSpace(Tail(s), Append(cur, Head(s)))

\* lines 35-46: a sentence joins the current chunk while the chunk with it
\* stays within max_tokens; otherwise the current chunk is emitted, stripped
RECURSIVE MainAccumulate(_, _, _, _)
MainAccumulate(sentences, current_chunk, chunks, max_tokens) ==
    IF sentences = <<>>
    THEN IF Strip(current_chunk) # <<>>
         THEN Append(chunks, Strip(current_chunk))
         ELSE chunks
    ELSE LET sentence == Head(sentences) IN
         IF backend_count_tokens(current_chunk \o sentence) <= max_tokens
         THEN MainAccumulate(Tail(sentences),
                             current_chunk \o sentence \o <<".", " ">>,
                             chunks, max_tokens)
         ELSE MainAccumulate(Tail(sentences), sentence \o <<".", " ">>,
                             Append(chunks, Strip(current_chunk)), max_tokens)

main_split_text_into_chunks(text, max_tokens) ==
    MainAccumulate(SplitDotSpace(text, <<>>), <<>>, <<>>, max_tokens)

FileA == <<"a.txt">>
FileB == <<"b.txt">>
BNames == {FileA, FileB}

\* "xxxxx" and "zz"
BDocLong  == <<"x","x","x","x","x">>
BDocShort == <<"z","z">>
BDocTexts == {BDocLong, BDocShort}

BQueries == {QRates}

\* the orders in which os.listdir can list the files of the folder
RECURSIVE Listings(_)
Listings(files) ==
    IF files = {} THEN {<<>>}
    ELSE UNION {{<<f>> \o rest : rest \in Listings(files \ {f})} : f \in files}

\* the files of the listing that can be read, in the listing's order
RECURSIVE ReadableOf(_, _)
ReadableOf(listing, unreadable) ==
    IF listing = <<>> THEN <<>>
    ELSE (IF Head(listing) \in unreadable THEN <<>> ELSE <<Head(listing)>>)
         \o ReadableOf(Tail(listing), unreadable)

\* the files listed before the first one that cannot be read
RECURSIVE ReadableBeforeFailure(_, _)
ReadableBeforeFailure(listing, unreadable) ==
    IF listing = <<>> \/ Head(listing) \in unreadable THEN <<>>
    ELSE <<Head(listing)>> \o ReadableBeforeFailure(Tail(listing), unreadable)

\* a load that stops at the first file it cannot read
load_docs_aborts(dir, listing, unreadable) ==
    LET files == ReadableBeforeFailure(listing, unreadable)
    IN  [i \in 1..Len(files) |->
            [content |-> dir[files[i]], source |-> files[i]]]

\* backend/app.py:166-183; unreadable: the files whose open or parse raises,
\* which lines 181-182 print and skip
load_docs(dir, listing, unreadable) ==
    LET files == ReadableOf(listing, unreadable)
    IN  [i \in 1..Len(files) |->
            [content |-> dir[files[i]], source |-> files[i]]]

\* line 196: f"doc_{i}_chunk_{j}"
BackendChunkId(i, j) == <<"doc_">> \o Str(i) \o <<"_chunk_">> \o Str(j)

\* lines 195-204 for the document at position i (from 0): the chunks whose
\* ids the collection does not hold are added
AddDocument(idx, doc, i) ==
    LET chunks == backend_split_text_into_chunks(doc.content, BackendMaxTokens)
        fresh  == [j \in 1..Len(chunks) |->
                      [id |-> BackendChunkId(i, j - 1), text |-> chunks[j],
                       source |-> doc.source, ordinal |-> j - 1]]
    IN  idx \o SelectSeq2(fresh, IdsOf(idx))

RECURSIVE AddDocuments(_, _, _)
AddDocuments(idx, documents, i) ==
    IF i > Len(documents) THEN idx
    ELSE AddDocuments(AddDocument(idx, documents[i], i - 1), documents, i + 1)

\* backend/app.py:185-207; deleteFails: collection.get or collection.delete
\* raises and lines 191-192 swallow it
backend_initialize_db(idx, documents, deleteFails) ==
    AddDocuments(IF deleteFails THEN idx ELSE <<>>, documents, 1)

\* at most one file of the folder fails to open or parse in one load
Unreadables == {{}} \cup {{n} : n \in BNames}

NotCached == <<"<not cached>">>

NoBackendCall == [op |-> "none", name |-> <<>>, query |-> <<>>,
                  value |-> <<>>, raised |-> FALSE, cached |-> FALSE,
                  unreadable |-> {}, deleteFailed |-> FALSE]

BackendIdle ==
    /\ bDir = [n \in BNames |-> NoFile]
    /\ bIndex = <<>>
    /\ bCache = [q \in BQueries |-> NotCached]
    /\ bLast = NoBackendCall


(***************************************************************************)
(* utils.py: generate_response (lines 242-292), and the chat state of      *)
(* app.py.                                                                 *)
(***************************************************************************)
\* line 245, line 292, and a reply of the language model (stripped)
TxtNoInformation == <<"I don't have enough information to answer that question.">>
TxtGenerateTrouble == <<"I'm having trouble generating a response right now.">>
TxtAnswer == <<"<answer>">>

\* chunks[:n]
FirstN(seq, n) == SubSeq(seq, 1, IF Len(seq) < n THEN Len(seq) ELSE n)

ParagraphSep == <<LF, LF>>

\* seq[::-1]
Reverse(seq) == [i \in 1..Len(seq) |-> seq[Len(seq) + 1 - i]]

\* a prompt built from the documents in reverse order
build_context_reversed(relevant_docs, max_context_length) ==
    Join(ParagraphSep, Reverse(relevant_docs))

\* lines 247-254: the context of the prompt
build_context(relevant_docs, max_context_length) ==
    LET context == Join(ParagraphSep, relevant_docs)
    IN  IF count_tokens(context) > max_context_length
        THEN Join(ParagraphSep,
                  FirstN(split_text_into_chunks(context,
                                                max_context_length \div 2), 2))
        ELSE context

\* the call: whether the language model was called, with which context, and
\* the string returned; llmFails: both API formats raise (lines 290-292)
generate_response(query, relevant_docs, max_context_length, llmFails) ==
    IF relevant_docs = <<>>
    THEN [invoked |-> FALSE, docs |-> relevant_docs, context |-> <<>>,
          response |-> TxtNoInformation]
    ELSE [invoked |-> TRUE, docs |-> relevant_docs,
          context |-> build_context(relevant_docs, max_context_length),
          response |-> IF llmFails THEN TxtGenerateTrouble ELSE TxtAnswer]

NoInput == <<"<no last_input>">>

NoSynth == [invoked |-> FALSE, docs |-> <<>>, context |-> <<>>,
            response |-> <<>>]

\* app.py:85-86; last_input is not in the session state
ChatIdle ==
    /\ chat_history = <<>>
    /\ last_input = NoInput
    /\ synth = NoSynth

(***************************************************************************)
(* backend/mortgage_journey.py: MortgageJourney, and the places that name  *)
(* the stage at which protection is best discussed.                        *)
(***************************************************************************)
INITIAL_INQUIRY == "initial_inquiry"
RATE_SHOPPING == "rate_shopping"
DOCUMENTATION_COLLECTION == "documentation_collection"
APPLICATION_SUBMISSION == "application_submission"
APPROVAL == "approval"
CLOSING == "closing"
FUNDING == "funding"
POST_FUNDING == "post_funding"

\* list(MortgageJourneyStage): the members in the order of their definition
stages_order ==
    <<INITIAL_INQUIRY, RATE_SHOPPING, DOCUMENTATION_COLLECTION,
      APPLICATION_SUBMISSION, APPROVAL, CLOSING, FUNDING, POST_FUNDING>>

MortgageJourneyStage == {stages_order[i] : i \in 1..Len(stages_order)}

NEW_PURCHASE == "new_purchase"
REFINANCE == "refinance"
RENEWAL == "renewal"
TRANSFER == "transfer"
INVESTMENT_PROPERTY == "investment_property"

MortgageType ==
    {NEW_PURCHASE, REFINANCE, RENEWAL, TRANSFER, INVESTMENT_PROPERTY}

\* stages_order.index(stage), counted from 1
StageIndex(stage) == CHOOSE i \in 1..Len(stages_order) : stages_order[i] = stage

\* app.py:98-104 at time t: stage_history is the empty dict of the field's
\* default_factory
NewJourney(t) ==
    [mortgage_type |-> NEW_PURCHASE, current_stage |-> INITIAL_INQUIRY,
     started_at |-> t, stage_history |-> <<>>]

\* a stage update that forgets the stamps of the other stages
update_stage_resets(j, new_stage, t) ==
    [j EXCEPT !.current_stage = new_stage,
              !.stage_history = [s \in {new_stage} |-> t]]

\* update_stage (lines 63-68) at time t
update_stage(j, new_stage, t) ==
    [j EXCEPT !.current_stage = new_stage,
              !.stage_history =
                  [s \in DOMAIN j.stage_history \cup {new_stage} |->
                      IF s = new_stage THEN t ELSE j.stage_history[s]]]

NoDuration == "None"

\* get_stage_duration (lines 84-101) at time t
get_stage_duration(j, stage, t) ==
    IF stage \notin DOMAIN j.stage_history THEN NoDuration
    ELSE LET stage_start == j.stage_history[stage]
             stage_index == StageIndex(stage)
         IN  IF /\ stage_index + 1 <= Len(stages_order)
                /\ stages_order[stage_index + 1] \in DOMAIN j.stage_history
             THEN j.stage_history[stages_order[stage_index + 1]] - stage_start
             ELSE t - stage_start

\* get_optimal_protection_discussion_stage (lines 103-117)
get_optimal_protection_discussion_stage(mortgage_type) ==
    IF mortgage_type \in {NEW_PURCHASE, TRANSFER} THEN DOCUMENTATION_COLLECTION
    ELSE IF mortgage_type = RENEWAL THEN INITIAL_INQUIRY
    ELSE DOCUMENTATION_COLLECTION

\* early_journey_integration.py:94-100
ideal_stages ==
    [mt \in MortgageType |->
        CASE mt = NEW_PURCHASE -> DOCUMENTATION_COLLECTION
          [] mt = REFINANCE -> DOCUMENTATION_COLLECTION
          [] mt = RENEWAL -> INITIAL_INQUIRY
          [] mt = TRANSFER -> DOCUMENTATION_COLLECTION
          [] mt = INVESTMENT_PROPERTY -> APPLICATION_SUBMISSION]

\* early_journey_integration.py:102: the "ideal_timing" opportunity is added
ideal_timing(journey_stage, mortgage_type) ==
    journey_stage = ideal_stages[mortgage_type]

\* early_journey_integration.py:243
is_optimal_time(journey_stage, mortgage_type) ==
    journey_stage = DOCUMENTATION_COLLECTION

NoAdvice ==
    [op |-> "none", mortgage_type |-> "", journey_stage |-> "",
     optimal_stage |-> "", ideal_timing |-> FALSE, is_optimal_time |-> FALSE]

\* the session starts: app.py:96-104
JourneyInit == now = 0 /\ journey = NewJourney(0) /\ advice = NoAdvice

(***************************************************************************)
(* utils.py with two callers at once.                                      *)
(***************************************************************************)
Procs == {1, 2}

NoProc ==
    [kind |-> "none", pc |-> "done", query |-> <<>>, documents |-> <<>>,
     value |-> <<>>, raised |-> FALSE, seeded |-> FALSE]

RaceIdle == procs = [p \in Procs |-> NoProc]

(***************************************************************************)
(* Actions of the application (app.py with utils.py).                      *)
(***************************************************************************)
ChunkIdle ==
    /\ cText = <<>> /\ cMax = 0 /\ cChunks = <<>> /\ cPc = "idle"

MainInit ==
    /\ clientOk \in BOOLEAN
    /\ collExists = FALSE
    /\ index = <<>>
    /\ docsDir = [n \in Names |-> NoFile]
    /\ last = NoCall
    /\ changed = [n \in Names |-> FALSE]
    /\ ingested = [n \in Names |-> FALSE]
    /\ latestOk = [n \in Names |-> FALSE]

Init ==
    ChunkIdle /\ MainInit /\ BackendIdle /\ ChatIdle /\ RaceIdle /\ JourneyInit

\* the Document Management page with a file in the uploader
Upload(name, text, env) ==
    LET chunks    == split_text_into_chunks(text, UploadMaxTokens)
        documents == UploadDocuments(name, chunks)
        r         == initialize_db(documents, clientOk, collExists, index,
                                   env.policy, env.failAt)
    IN  /\ docsDir' = [docsDir EXCEPT ![name] = text]
        /\ changed' = [changed EXCEPT
                          ![name] = @ \/ (docsDir[name] \notin {NoFile, text})]
        /\ collExists' = r.exists
        /\ index' = r.index
        /\ last' = [NoCall EXCEPT
                       !.op = "upload", !.name = name, !.text = text,
                       !.ids = [k \in 1..Len(documents) |-> documents[k].id],
                       !.before = Len(index), !.success = r.ok,
                       !.raised = r.raised]
        /\ ingested' = [ingested EXCEPT ![name] = @ \/ r.ok]
        /\ latestOk' = [latestOk EXCEPT ![name] = r.ok]
        /\ UNCHANGED <<clientOk, chunkVars, backendVars, chatVars, raceVars,
                       journeyVars>>

\* a call of retrieve_relevant_chunks (the chatbot's Send, app.py:350)
Retrieve(query, top_k, env) ==
    \E r \in {retrieve_relevant_chunks(query, top_k, clientOk, collExists,
                                       index, env)} :
        /\ collExists' = r.exists
        /\ index' = r.index
        /\ last' = [NoCall EXCEPT
                       !.op = "retrieve", !.query = query, !.top_k = top_k,
                       !.raised = r.raised, !.value = r.value, !.path = r.path,
                       !.hits = r.hits, !.size = r.size, !.cold = r.cold,
                       !.before = Len(index),
                       !.failed = r.failed]
        /\ UNCHANGED <<clientOk, docsDir, changed, ingested, latestOk, chunkVars,
                       backendVars, chatVars, raceVars,
                       journeyVars>>

UploadStep ==
    \E name \in Names, text \in DocTexts, env \in UploadEnvs :
        Upload(name, text, env)

RetrieveStep ==
    \E query \in Queries, top_k \in TopKs, env \in RetrieveEnvs :
        Retrieve(query, top_k, env)

Next == UploadStep \/ RetrieveStep

Spec == Init /\ [][Next]_vars

(***************************************************************************)
(* The chunker on its own: split_text_into_chunks applied to every text    *)
(* of at most MaxLen characters and every budget up to MaxBudget.          *)
(***************************************************************************)
MainIdle ==
    /\ clientOk = TRUE
    /\ collExists = FALSE
    /\ index = <<>>
    /\ docsDir = [n \in Names |-> NoFile]
    /\ last = NoCall
    /\ changed = [n \in Names |-> FALSE]
    /\ ingested = [n \in Names |-> FALSE]
    /\ latestOk = [n \in Names |-> FALSE]

ChunkInit ==
    /\ cText \in TextsUpTo(MaxLen)
    /\ cMax \in 0..MaxBudget
    /\ cChunks = <<>>
    /\ cPc = "ready"
    /\ MainIdle
    /\ BackendIdle
    /\ ChatIdle
    /\ RaceIdle
    /\ JourneyInit

ChunkCall ==
    /\ cPc = "ready"
    /\ cChunks' = split_text_into_chunks(cText, cMax)
    /\ cPc' = "done"
    /\ UNCHANGED <<cText, cMax, mainVars, backendVars, chatVars, raceVars,
                       journeyVars>>

\* backend/app.py's chunker on the same inputs; with max_tokens = 0 the loop
\* of lines 160-163 never ends and there is no result
BackendChunkCall ==
    /\ cPc = "ready"
    /\ cMax >= 1
    /\ cChunks' = backend_split_text_into_chunks(cText, cMax)
    /\ cPc' = "done_backend"
    /\ UNCHANGED <<cText, cMax, mainVars, backendVars, chatVars, raceVars,
                       journeyVars>>

\* backend/main.py's chunker on the same inputs
MainChunkCall ==
    /\ cPc = "ready"
    /\ cChunks' = main_split_text_into_chunks(cText, cMax)
    /\ cPc' = "done_main"
    /\ UNCHANGED <<cText, cMax, mainVars, backendVars, chatVars, raceVars,
                       journeyVars>>

ChunkNext == ChunkCall \/ BackendChunkCall \/ MainChunkCall

SpecChunk == ChunkInit /\ [][ChunkNext]_vars

\* a text with no sentence boundary inside
IsOneSentence(text) == Len(SplitSentences(text, <<>>, NoChar)) = 1

\* C10: every chunk the chunker returns is within the budget, except a chunk
\* of exactly one sentence that is over the budget by itself
ChunkSizeBound ==
    cPc = "done" =>
        \A i \in 1..Len(cChunks) :
            \/ count_tokens(cChunks[i]) <= cMax
            \/ IsOneSentence(cChunks[i])

\* a text re-split by sentences into a chunk within the budget and a single
\* sentence over it
ChunkSizeBoundWitness ==
    /\ cPc = "done"
    /\ \E i, j \in 1..Len(cChunks) :
          /\ count_tokens(cChunks[i]) <= cMax
          /\ IsOneSentence(cChunks[j]) /\ count_tokens(cChunks[j]) > cMax

IsPunctuation(c) == c \in {".", "!", "?", ",", ";", ":"}

IsBlank(text) == \A k \in 1..Len(text) : IsSpace(text[k])

HasWordChar(text) ==
    \E k \in 1..Len(text) : ~IsSpace(text[k]) /\ ~IsPunctuation(text[k])

\* C11: each of the three chunkers returns no chunk for an empty or
\* whitespace-only text, and never returns a chunk that is empty or made of
\* whitespace and punctuation only
NoBlankChunk ==
    cPc \in {"done", "done_backend", "done_main"} =>
        /\ IsBlank(cText) => cChunks = <<>>
        /\ \A i \in 1..Len(cChunks) : HasWordChar(cChunks[i])

\* the sentences of a text, as re.split(r'(?<=[.!?])\s+') cuts them
SentencesOf(text) == SplitSentences(text, <<>>, NoChar)

\* C12: a sentence whose token count is over the budget is one of the chunks
\* returned, whole and with no other sentence in the chunk (utils.py on the
\* normalised text, backend/app.py on the text as given)
OversizeSentenceAlone ==
    /\ cPc = "done" =>
          \A k \in 1..Len(SentencesOf(Normalize(cText))) :
              LET s == SentencesOf(Normalize(cText))[k]
              IN  count_tokens(s) > cMax => \E i \in 1..Len(cChunks) : cChunks[i] = s
    /\ cPc = "done_backend" =>
          \A k \in 1..Len(SentencesOf(cText)) :
              LET s == SentencesOf(cText)[k]
              IN  backend_count_tokens(s) > cMax
                      => \E i \in 1..Len(cChunks) : cChunks[i] = s

\* C13: the chunks of utils.py's chunker joined by single spaces are the
\* whitespace-normalised text
ChunksCoverText ==
    cPc = "done" => Join(<<" ">>, cChunks) = Normalize(cText)

\* a text whose whitespace was normalised and that was cut into several chunks
ChunksCoverTextWitness ==
    /\ cPc = "done"
    /\ Len(cChunks) >= 2
    /\ Normalize(cText) # cText

\* the paragraphs of a text: its parts between blank lines, each with its
\* whitespace normalised
ParagraphsOf(text) ==
    LET parts == SplitParagraphs(text, <<>>)
    IN  [i \in 1..Len(parts) |-> Normalize(parts[i])]

\* C23: when the text has several paragraphs that each fit the budget and do
\* not fit it together, every chunk of utils.py's chunker is a run of whole
\* consecutive paragraphs joined by single spaces
WholeParagraphChunks ==
    cPc = "done" =>
        LET ps == ParagraphsOf(cText)
        IN  (/\ Len(ps) >= 2
             /\ \A i \in 1..Len(ps) :
                    ps[i] # <<>> /\ count_tokens(ps[i]) <= cMax
             /\ count_tokens(Normalize(cText)) > cMax)
            => \A k \in 1..Len(cChunks) :
                   \E i, j \in 1..Len(ps) :
                       i <= j /\ cChunks[k] = Join(<<" ">>, SubSeq(ps, i, j))

\* the sentences of the chunks, in order
RECURSIVE SentencesOfChunks(_)
SentencesOfChunks(chunks) ==
    IF chunks = <<>> THEN <<>>
    ELSE SplitSentences(Head(chunks), <<>>, NoChar)
             \o SentencesOfChunks(Tail(chunks))

\* C24: when the normalised text is over the budget, the chunks of utils.py's
\* chunker hold its sentences (the parts between a '.', '!' or '?' and the
\* whitespace after it) whole and in order, and a chunk is closed only when
\* the next sentence does not fit: a chunk joined by a space with the first
\* sentence of the chunk after it is over the budget
GreedySentenceSplit ==
    (cPc = "done" /\ count_tokens(Normalize(cText)) > cMax) =>
        /\ SentencesOfChunks(cChunks)
               = SplitSentences(Normalize(cText), <<>>, NoChar)
        /\ \A k \in 1..(Len(cChunks) - 1) :
               count_tokens(cChunks[k] \o <<" ">>
                   \o Head(SplitSentences(cChunks[k + 1], <<>>, NoChar))) > cMax

\* a text over the budget was cut into several chunks and one of them holds
\* more than one sentence
GreedySentenceSplitWitness ==
    /\ cPc = "done" /\ count_tokens(Normalize(cText)) > cMax
    /\ Len(cChunks) >= 2
    /\ \E k \in 1..Len(cChunks) :
           Len(SplitSentences(cChunks[k], <<>>, NoChar)) >= 2

(***************************************************************************)
(* Properties of the retriever (Spec).  In a state whose last call is a    *)
(* retrieval, index is the index that call queried: a later call would     *)
(* have replaced last.                                                     *)
(***************************************************************************)
Range(f) == {f[i] : i \in DOMAIN f}

HasMortgage(query)  == Contains(Lower(query), KwMortgage)
HasInsurance(query) == Contains(Lower(query), KwInsurance)

\* C1: a retrieval called while the index holds no entries returns a
\* non-empty sequence and does not raise
EmptyIndexGivesSnippets ==
    (last.op = "retrieve" /\ last.before = 0) =>
        (~last.raised /\ last.value # <<>>)

\* C2: with an empty index or an index that raised, a query with "mortgage"
\* gets the mortgage snippets and a query with neither keyword the generic ones
FallbackChosenByKeyword ==
    (last.op = "retrieve" /\ (last.size = 0 \/ last.failed)) =>
        /\ HasMortgage(last.query) => last.value = MortgageFallback
        /\ (~HasMortgage(last.query) /\ ~HasInsurance(last.query))
              => last.value = GenericFallback

\* C3: when the queried index holds entries and no call raised, the result is
\* the texts of the nearest top_k entries in the index's order, and the
\* fallback paths are taken only on an empty index or after a raise
HitsReturnedAsIs ==
    last.op = "retrieve" =>
        /\ (index # <<>> /\ ~last.failed) =>
              /\ last.path = "hits"
              /\ last.value = TextsOf(Nearest(index, 1..Len(index),
                                              Embed(last.query), last.top_k))
        /\ last.path \in {"keyword", "trouble"} => (index = <<>> \/ last.failed)

\* a warm index of uploaded chunks answered with several of its entries
HitsReturnedAsIsWitness ==
    /\ last.op = "retrieve" /\ last.path = "hits" /\ ~last.cold
    /\ Len(last.value) >= 2
    /\ \E i \in 1..Len(index) : index[i].source \in Names

ChunksOfFile(name) ==
    IF docsDir[name] = NoFile THEN <<>>
    ELSE split_text_into_chunks(docsDir[name], UploadMaxTokens)

UploadIds(name, text) ==
    LET chunks == split_text_into_chunks(text, UploadMaxTokens)
    IN  {ChunkId(name, k - 1) : k \in 1..Len(chunks)}

EntriesOfSource(idx, name) == SelectSeq(idx, LAMBDA e : e.source = name)

\* C5: uploading again a file that is unchanged and whose chunks are in the
\* index leaves the index (ids, texts, metadata) as it was
IdempotentIngestion ==
    [][\A name \in Names, text \in DocTexts :
          ( /\ docsDir[name] = text
            /\ ingested[name]
            /\ UploadIds(name, text) \subseteq IdsOf(index)
            /\ \E env \in UploadEnvs : Upload(name, text, env) )
          => index' = index]_vars

\* the second upload of an unchanged two-chunk file was refused by the store
IdempotentIngestionWitness ==
    /\ last.op = "upload" /\ ~last.success /\ Len(last.ids) = 2
    /\ ~changed[last.name] /\ ingested[last.name]
    /\ Range(last.ids) \subseteq IdsOf(index)

\* the largest ordinal looked at by the id properties
MaxOrdinal == 11

\* C6: ids are unique in the index, an id is the id of one source and one
\* ordinal only, and a file ingested in one version only has exactly one
\* entry per chunk, also after it is ingested again
UniqueChunkIds ==
    /\ \A i, j \in 1..Len(index) : index[i].id = index[j].id => i = j
    /\ \A n1, n2 \in Names, k1, k2 \in 0..MaxOrdinal :
          ChunkId(n1, k1) = ChunkId(n2, k2) => (n1 = n2 /\ k1 = k2)
    /\ \A i \in 1..Len(index) :
          index[i].source \in Names =>
              \E k \in 0..MaxOrdinal : index[i].id = ChunkId(index[i].source, k)
    /\ \A n \in Names :
          (ingested[n] /\ ~changed[n]) =>
              EntriesOf(UploadDocuments(n, ChunksOfFile(n)))
                  = EntriesOfSource(index, n)

\* two files of two chunks each are in the index with four ids, and the last
\* upload ingested one of them again
UniqueChunkIdsWitness ==
    /\ \A n \in Names : ingested[n] /\ ~changed[n] /\ Len(ChunksOfFile(n)) = 2
    /\ Len(index) = 4
    /\ last.op = "upload" /\ last.before = 4

\* C7: after a file was uploaded again with another text and the upload
\* reported success, a retrieval returns no entry of that file whose text is
\* not a chunk of the file as it is now
NoStaleChunkRetrieved ==
    last.op = "retrieve" =>
        \A i \in 1..Len(index) :
            ( /\ index[i].source \in Names
              /\ latestOk[index[i].source]
              /\ index[i].id \in Range(last.hits) )
                => index[i].text \in Range(ChunksOfFile(index[i].source))

\* the write path of an upload: the store is open, every chunk is embedded
\* and collection.add takes the batch
WritePathCompletes(name, text, env) ==
    LET documents == UploadDocuments(name,
                         split_text_into_chunks(text, UploadMaxTokens))
    IN  /\ clientOk
        /\ env.failAt \notin 1..Len(documents)
        /\ ~collection_add(index, EntriesOf(documents), env.policy).raised

\* C15: initialize_db called by an upload does not raise, and returns true
\* exactly when the write path completed: false when the store cannot be
\* opened, when an embedding raised and when collection.add raised
InitializeDbSignal ==
    [][last'.op = "upload" =>
          \A env \in UploadEnvs :
              Upload(last'.name, last'.text, env) =>
                  /\ ~last'.raised
                  /\ last'.success
                        <=> WritePathCompletes(last'.name, last'.text, env)]_vars

\* the store is open and refused the batch of a file uploaded with a new text
InitializeDbSignalWitness ==
    /\ last.op = "upload" /\ clientOk /\ ~last.success /\ ~last.raised
    /\ changed[last.name]
    /\ Range(last.ids) \cap IdsOf(index) # {}

\* C16: an upload in which the embedding of one of its chunks raises writes
\* nothing (the index afterwards is the index before) and reports failure
EmbeddingFailureAborts ==
    [][(last'.op = "upload" /\ clientOk) =>
          \A env \in UploadEnvs :
              ( /\ env.failAt \in 1..Len(last'.ids)
                /\ Upload(last'.name, last'.text, env) )
              => (index' = index /\ ~last'.success /\ ~last'.raised)]_vars

\* an upload of a two-chunk file none of whose ids the index holds failed
\* with the store open and entries of another file in the index: an
\* embedding raised
EmbeddingFailureAbortsWitness ==
    /\ last.op = "upload" /\ clientOk /\ ~last.success
    /\ Len(last.ids) = 2
    /\ Range(last.ids) \cap IdsOf(index) = {}
    /\ last.before > 0 /\ Len(index) = last.before

\* C17: a retrieval step leaves the entries of the index as they were
RetrievalLeavesIndex ==
    [][last'.op = "retrieve" => index' = index]_vars

(***************************************************************************)
(* Retrieval with a small top_k as well (SpecTopK).                        *)
(***************************************************************************)
SmallTopKs == {1}

RetrieveTopKStep ==
    \E query \in Queries, top_k \in SmallTopKs \cup TopKs, env \in RetrieveEnvs :
        Retrieve(query, top_k, env)

NextTopK == UploadStep \/ RetrieveTopKStep

SpecTopK == Init /\ [][NextTopK]_vars

Min(a, b) == IF a <= b THEN a ELSE b

\* C18: a retrieval returns at most top_k strings, and on an index of n >= 1
\* entries exactly min(top_k, n) strings, each the text of an entry
AtMostTopKEntries ==
    last.op = "retrieve" =>
        /\ Len(last.value) <= last.top_k
        /\ Len(index) >= 1 =>
              /\ Len(last.value) = Min(last.top_k, Len(index))
              /\ \A i \in 1..Len(last.value) :
                    last.value[i] \in Range(TextsOf(index))

\* C18 as amended: when no call of the retrieval raised and the index holds
\* n >= 1 entries the result is exactly min(top_k, n) strings, each the text
\* of an entry; the keyword and trouble sets have their fixed sizes whatever
\* top_k is
TopKEntriesWhenNoFailure ==
    last.op = "retrieve" =>
        /\ (~last.failed /\ Len(index) >= 1) =>
              /\ Len(last.value) = Min(last.top_k, Len(index))
              /\ \A i \in 1..Len(last.value) :
                    last.value[i] \in Range(TextsOf(index))
        /\ last.path = "keyword" => Len(last.value) \in {2, 3}
        /\ last.path = "trouble" => Len(last.value) = 3

\* a retrieval with top_k = 1 on an index of several uploaded chunks
TopKEntriesWhenNoFailureWitness ==
    /\ last.op = "retrieve" /\ last.top_k = 1 /\ last.path = "hits"
    /\ Len(last.value) = 1
    /\ Len(index) >= 2 /\ \E i \in 1..Len(index) : index[i].source \in Names

(***************************************************************************)
(* The chat page (SpecChat): uploads and Send events of chatbot_interface. *)
(***************************************************************************)
ChatInputs == {QEmpty, QMortgage, QRates}

\* the store is healthy, answers an empty collection without documents, or
\* the query raises
ChatEnvs ==
    {Env("skip", "lists", FALSE, FALSE, FALSE, 0),
     Env("skip", "nodocs", FALSE, FALSE, FALSE, 0),
     Env("skip", "lists", FALSE, FALSE, TRUE, 0)}

\* lines 347 and 356 (the timestamp is left out)
UserMessage(content) == [role |-> "user", content |-> content]
AssistantMessage(content) == [role |-> "assistant", content |-> content]

\* a test that takes every non-empty input for a new message
is_new_message_any(send_button, user_input) ==
    send_button /\ user_input # <<>>

\* app.py:340-342: Send was pressed, the text box is not empty, and there is
\* no last_input or the text differs from it
is_new_message(send_button, user_input) ==
    send_button /\ user_input # <<>> /\ user_input # last_input

\* app.py:336-359: one run of the page with the text box holding user_input
\* and the Send button pressed or not
chatbot_interface(send_button, user_input, env, llmFails) ==
    IF is_new_message(send_button, user_input)
    THEN \E r \in {retrieve_relevant_chunks(user_input, DefaultTopK, clientOk,
                                            collExists, index, env)} :
         \E g \in {generate_response(user_input, r.value, MaxContextTokens,
                                      llmFails)} :
            /\ last_input' = user_input
            /\ chat_history' =
                  IF r.raised
                  THEN Append(chat_history, UserMessage(user_input))
                  ELSE chat_history \o <<UserMessage(user_input),
                                         AssistantMessage(g.response)>>
            /\ synth' = IF r.raised THEN synth ELSE g
            /\ collExists' = r.exists
            /\ index' = r.index
            /\ last' = [NoCall EXCEPT
                           !.op = "retrieve", !.query = user_input,
                           !.top_k = DefaultTopK,
                           !.raised = r.raised, !.value = r.value,
                           !.path = r.path, !.hits = r.hits, !.size = r.size,
                           !.cold = r.cold, !.before = Len(index),
                           !.failed = r.failed]
            /\ UNCHANGED <<clientOk, docsDir, changed, ingested, latestOk,
                           chunkVars, backendVars, raceVars, journeyVars>>
    ELSE UNCHANGED vars

ChatUploadStep ==
    \E name \in Names, text \in DocTexts :
        Upload(name, text, Env("skip", "lists", FALSE, FALSE, FALSE, 0))

SendStep ==
    /\ Len(chat_history) < MaxHistory
    /\ \E send_button \in BOOLEAN, user_input \in ChatInputs,
          env \in ChatEnvs, llmFails \in BOOLEAN :
          chatbot_interface(send_button, user_input, env, llmFails)

NextChat == ChatUploadStep \/ SendStep

SpecChat == Init /\ [][NextChat]_vars

IsPrefix(a, b) == Len(a) <= Len(b) /\ SubSeq(b, 1, Len(a)) = a

\* C19: when generate_response calls the language model, the context is the
\* retrieved snippets joined in their order, all of them and nothing else
ContextIsRetrievedSnippets ==
    (last.op = "retrieve" /\ synth.invoked) =>
        /\ synth.docs = last.value
        /\ synth.context = Join(ParagraphSep, last.value)

\* C19 as amended: the context is the retrieved snippets joined in their
\* order when the estimate of the joined text is within max_context_length;
\* over it the context is cut and is, up to whitespace, a prefix of the
\* joined text; the language model is not called when nothing was retrieved
ContextIsRetrievedOrCut ==
    last.op = "retrieve" =>
        /\ synth.docs = last.value
        /\ synth.invoked <=> last.value # <<>>
        /\ synth.invoked =>
              LET joined == Join(ParagraphSep, last.value)
              IN  IF count_tokens(joined) <= MaxContextTokens
                  THEN synth.context = joined
                  ELSE IsPrefix(Normalize(synth.context), Normalize(joined))

\* three or more retrieved chunks were over the budget together and the
\* context given to the language model lost the end of them
ContextIsRetrievedOrCutWitness ==
    /\ last.op = "retrieve" /\ synth.invoked
    /\ Len(last.value) >= 3
    /\ count_tokens(Join(ParagraphSep, last.value)) > MaxContextTokens
    /\ Normalize(synth.context) # Normalize(Join(ParagraphSep, last.value))

\* the call without any failure
QuietEnv == Env("skip", "lists", FALSE, FALSE, FALSE, 0)

\* C22: in every state, for every query, top_k and environment, a retrieval
\* and the two retrievals that follow it with nothing in between return the
\* same sequence of strings; the first of them may find the collection
\* missing and seed it
RepeatedRetrievalSame ==
    \A query \in Queries \cup {QRates}, top_k \in TopKs \cup SmallTopKs,
       env \in RetrieveEnvs :
        \A r1 \in {retrieve_relevant_chunks(query, top_k, clientOk,
                                            collExists, index, env)} :
            \A r2 \in {retrieve_relevant_chunks(query, top_k, clientOk,
                                                r1.exists, r1.index, env)} :
                /\ r2.value = r1.value
                /\ retrieve_relevant_chunks(query, top_k, clientOk, r2.exists,
                                            r2.index, env).value = r1.value

\* a retrieval found the collection missing, seeded it and returned what the
\* query found, and the same call made now returns the same strings
RepeatedRetrievalSameWitness ==
    /\ last.op = "retrieve" /\ last.cold /\ last.path = "hits"
    /\ last.value # <<>>
    /\ retrieve_relevant_chunks(last.query, last.top_k, clientOk, collExists,
                                index, QuietEnv).value = last.value

\* C26: chat_history has even length and its messages alternate user,
\* assistant, starting with user
HistoryAlternates ==
    /\ Len(chat_history) % 2 = 0
    /\ \A i \in 1..Len(chat_history) :
           chat_history[i].role = IF i % 2 = 1 THEN "user" ELSE "assistant"

\* two inputs were processed: the retrieval of one of them failed or the
\* language model failed on it, and each has its answer
HistoryAlternatesWitness ==
    /\ Len(chat_history) = 4
    /\ \/ last.failed
       \/ chat_history[4].content = TxtGenerateTrouble
    /\ chat_history[3].content = last_input

\* across a step: when last_input stays, chat_history stays, nothing is
\* retrieved and no answer is generated; when last_input changes, the new
\* input is not empty, it was retrieved for, and chat_history grew by its
\* user message and one assistant message
SendEffect ==
    /\ last_input' = last_input =>
          /\ chat_history' = chat_history
          /\ synth' = synth
          /\ last'.op # "retrieve"
    /\ last_input' # last_input =>
          /\ last_input' # <<>>
          /\ last'.op = "retrieve" /\ last'.query = last_input'
          /\ Len(chat_history') = Len(chat_history) + 2
          /\ SubSeq(chat_history', 1, Len(chat_history)) = chat_history
          /\ chat_history'[Len(chat_history) + 1] = UserMessage(last_input')
          /\ chat_history'[Len(chat_history) + 2].role = "assistant"

\* C27: a Send whose input is last_input is not taken for a new message and
\* every Send with another non-empty input is; only a new message changes
\* chat_history and last_input and starts retrieval and generation
RepeatedInputSkipped ==
    /\ [](\A user_input \in ChatInputs :
             is_new_message(TRUE, user_input)
                 <=> (user_input # <<>> /\ user_input # last_input))
    /\ [][SendEffect]_vars

\* a second, different input was processed after a first one
RepeatedInputSkippedWitness ==
    /\ Len(chat_history) = 4
    /\ chat_history[1].content # chat_history[3].content
    /\ chat_history[3].content = last_input
    /\ last.op = "retrieve" /\ last.query = last_input

(***************************************************************************)
(* The backend variant as a program of its own (SpecBackend).              *)
(***************************************************************************)
BackendInit ==
    ChunkIdle /\ MainIdle /\ BackendIdle /\ ChatIdle /\ RaceIdle /\ JourneyInit

\* backend/app.py:236-246
upload_and_overwrite_file(name, text, listing, unreadable, deleteFails) ==
    LET dir == [bDir EXCEPT ![name] = text]
    IN  /\ listing \in Listings({n \in BNames : dir[n] # NoFile})
        /\ unreadable \subseteq {n \in BNames : dir[n] # NoFile}
        /\ bDir' = dir
        /\ bIndex' = backend_initialize_db(bIndex,
                                           load_docs(dir, listing, unreadable),
                                           deleteFails)
        /\ bLast' = [NoBackendCall EXCEPT !.op = "upload", !.name = name,
                                          !.unreadable = unreadable,
                                          !.deleteFailed = deleteFails]
        /\ UNCHANGED <<bCache, chunkVars, mainVars, chatVars, raceVars,
                       journeyVars>>

\* backend/app.py:209-212 under st.cache_data: a call with arguments seen
\* before returns the stored result without running the body
backend_retrieve_relevant_chunks(query, top_k, shape) ==
    LET res == collection_query(bIndex, Embed(query), top_k, shape, FALSE)
        hit == bCache[query] # NotCached
        val == IF hit THEN bCache[query]
               ELSE IF res.documents # <<>> THEN res.documents[1] ELSE <<>>
    IN  /\ bLast' = [NoBackendCall EXCEPT
                        !.op = "retrieve", !.query = query,
                        !.raised = ~hit /\ res.raised,
                        !.value = IF ~hit /\ res.raised THEN <<>> ELSE val,
                        !.cached = hit]
        /\ bCache' = IF hit \/ res.raised THEN bCache
                     ELSE [bCache EXCEPT ![query] = val]
        /\ UNCHANGED <<bDir, bIndex, chunkVars, mainVars, chatVars, raceVars,
                       journeyVars>>

BackendUploadStep ==
    \E name \in BNames, text \in BDocTexts, deleteFails \in BOOLEAN :
        \E listing \in Listings({n \in BNames : n = name \/ bDir[n] # NoFile}),
           unreadable \in Unreadables :
            upload_and_overwrite_file(name, text, listing, unreadable,
                                      deleteFails)

BackendRetrieveStep ==
    \E query \in BQueries, shape \in EmptyShapes :
        backend_retrieve_relevant_chunks(query, DefaultTopK, shape)

BackendNext == BackendUploadStep \/ BackendRetrieveStep

SpecBackend == BackendInit /\ [][BackendNext]_vars

\* C9: the id of a chunk is a function of its source name and its ordinal
\* only: across every step, a chunk of the same source and ordinal keeps its
\* id, and an id stays with its source
StableChunkIds ==
    [][\A i \in 1..Len(bIndex), j \in 1..Len(bIndex') :
          /\ (bIndex[i].source = bIndex'[j].source
                /\ bIndex[i].ordinal = bIndex'[j].ordinal)
                => bIndex[i].id = bIndex'[j].id
          /\ bIndex[i].id = bIndex'[j].id
                => bIndex[i].source = bIndex'[j].source]_vars

\* the chunks backend/app.py makes of a file of the folder
BackendChunksOfFile(name) ==
    IF bDir[name] = NoFile THEN <<>>
    ELSE backend_split_text_into_chunks(bDir[name], BackendMaxTokens)

\* C14: after an upload whose delete of the old ids went through, every file
\* of the folder that could be read has exactly its chunks in the index, in
\* order, whether or not another file failed to load; a file that failed to
\* load has none
ReadFailureSkipped ==
    (bLast.op = "upload" /\ ~bLast.deleteFailed) =>
        \A n \in BNames :
            TextsOf(EntriesOfSource(bIndex, n))
                = IF n \in bLast.unreadable THEN <<>> ELSE BackendChunksOfFile(n)

\* one file of the folder failed to load and the two chunks of the other
\* one are in the index
ReadFailureSkippedWitness ==
    /\ bLast.op = "upload" /\ ~bLast.deleteFailed
    /\ \E n, o \in BNames :
          /\ n # o /\ bLast.unreadable = {o} /\ bDir[o] # NoFile
          /\ Len(BackendChunksOfFile(n)) = 2
          /\ TextsOf(EntriesOfSource(bIndex, n)) = BackendChunksOfFile(n)

\* C20: across an upload the entries of every other source stay as they
\* were: each is in the index afterwards with the same id, text and source,
\* and no entry of another source appears
UploadTouchesOneSource ==
    [][bLast'.op = "upload" =>
          /\ \A i \in 1..Len(bIndex) :
                bIndex[i].source # bLast'.name =>
                    \E j \in 1..Len(bIndex') : bIndex'[j] = bIndex[i]
          /\ \A j \in 1..Len(bIndex') :
                bIndex'[j].source # bLast'.name =>
                    \E i \in 1..Len(bIndex) : bIndex[i] = bIndex'[j]]_vars

\* C21: an ingest only adds: every id of the index before the upload is an
\* id of the index after it, and the entry under it has the text and the
\* source it had
IngestOnlyAdds ==
    [][bLast'.op = "upload" =>
          \A i \in 1..Len(bIndex) :
              \E j \in 1..Len(bIndex') :
                  /\ bIndex'[j].id = bIndex[i].id
                  /\ bIndex'[j].text = bIndex[i].text
                  /\ bIndex'[j].source = bIndex[i].source]_vars

(***************************************************************************)
(* The Mortgage Journey Tracker page (SpecJourney).                        *)
(***************************************************************************)
\* the stages picked in the select box of app.py:933-938
SelectableStages ==
    {INITIAL_INQUIRY, RATE_SHOPPING, DOCUMENTATION_COLLECTION,
     APPLICATION_SUBMISSION, POST_FUNDING}

\* time passes between two events of the session
Tick ==
    /\ now < MaxTime
    /\ now' = now + 1
    /\ UNCHANGED <<journey, advice, chunkVars, mainVars, backendVars, chatVars,
                   raceVars>>

\* the "Update Journey" button, app.py:965-969 and the rerun of line 989
UpdateJourney(mortgage_type, current_stage) ==
    /\ journey' = update_stage([journey EXCEPT !.mortgage_type = mortgage_type],
                               current_stage, now)
    /\ advice' = NoAdvice
    /\ UNCHANGED <<now, chunkVars, mainVars, backendVars, chatVars, raceVars>>

\* the three computations of the best moment for the protection discussion,
\* for the journey's mortgage type and stage
ProtectionAdvice ==
    /\ advice' =
          [op |-> "advice",
           mortgage_type |-> journey.mortgage_type,
           journey_stage |-> journey.current_stage,
           optimal_stage |->
               get_optimal_protection_discussion_stage(journey.mortgage_type),
           ideal_timing |->
               ideal_timing(journey.current_stage, journey.mortgage_type),
           is_optimal_time |->
               is_optimal_time(journey.current_stage, journey.mortgage_type)]
    /\ UNCHANGED <<journey, now, chunkVars, mainVars, backendVars, chatVars,
                   raceVars>>

UpdateJourneyStep ==
    \E mortgage_type \in MortgageType, current_stage \in SelectableStages :
        UpdateJourney(mortgage_type, current_stage)

JourneyNext == Tick \/ UpdateJourneyStep \/ ProtectionAdvice

SpecJourney == BackendInit /\ [][JourneyNext]_vars

\* C28: get_stage_duration returns no negative duration for a stage that
\* stage_history holds
NoNegativeDuration ==
    \A stage \in DOMAIN journey.stage_history :
        get_stage_duration(journey, stage, now) >= 0

\* C29: the three places agree on the optimal stage: the journey's stage is
\* the stage get_optimal_protection_discussion_stage names exactly when
\* identify_protection_opportunities finds the ideal timing and exactly when
\* generate_protection_discussion_guide sets is_optimal_time
OptimalStageAgrees ==
    advice.op = "advice" =>
        /\ advice.ideal_timing <=> (advice.journey_stage = advice.optimal_stage)
        /\ advice.is_optimal_time <=> (advice.journey_stage = advice.optimal_stage)

\* across a step that changes the journey: the new current stage is stamped
\* with the time of the step and the stamps of all other stages are as
\* they were
UpdateStageFrame ==
    journey' # journey =>
        /\ journey'.current_stage \in DOMAIN journey'.stage_history
        /\ journey'.stage_history[journey'.current_stage] = now
        /\ DOMAIN journey'.stage_history
              = DOMAIN journey.stage_history \cup {journey'.current_stage}
        /\ \A s \in DOMAIN journey.stage_history :
               s # journey'.current_stage
                   => journey'.stage_history[s] = journey.stage_history[s]

\* C30 as stated: current_stage always has a stamp in stage_history, and
\* update_stage stamps its stage and leaves the other stamps
CurrentStageRecorded ==
    /\ [](journey.current_stage \in DOMAIN journey.stage_history)
    /\ [][UpdateStageFrame]_vars

\* C30: once update_stage has run (stage_history is not empty) current_stage
\* has a stamp in stage_history; update_stage stamps its stage and leaves
\* the stamps of the other stages
CurrentStageRecordedAfterUpdate ==
    /\ [](journey.stage_history # <<>>
            => journey.current_stage \in DOMAIN journey.stage_history)
    /\ [][UpdateStageFrame]_vars

\* the journey moved back to a stage it had been in: three stages have
\* stamps and the current one has the latest
CurrentStageRecordedAfterUpdateWitness ==
    /\ Cardinality(DOMAIN journey.stage_history) >= 3
    /\ journey.current_stage \in DOMAIN journey.stage_history
    /\ \E s \in DOMAIN journey.stage_history :
           /\ StageIndex(s) > StageIndex(journey.current_stage)
           /\ journey.stage_history[s] < journey.stage_history[journey.current_stage]

(***************************************************************************)
(* Two callers of utils.py on a missing collection (SpecRace).  A step is  *)
(* one call of the store's client; the calls of one caller are taken in    *)
(* the order of its code, those of two callers in any order.               *)
(***************************************************************************)
RaceQueries == {QMortgage, QRates}

RaceDocuments ==
    UploadDocuments(NameA, split_text_into_chunks(DocV1, UploadMaxTokens))

\* a caller about to run retrieve_relevant_chunks(query) (utils.py:140)
RetrieveCaller(query) ==
    [NoProc EXCEPT !.kind = "retrieve", !.pc = "r_get", !.query = query]

\* a caller about to run initialize_db(documents) (utils.py:107)
InitializeDbCaller(documents) ==
    [NoProc EXCEPT !.kind = "initialize_db", !.pc = "i_get",
                   !.documents = documents]

\* two retrievals, or a retrieval and an ingestion
RaceStarts ==
    {[p \in Procs |-> IF p = 1 THEN RetrieveCaller(q1) ELSE RetrieveCaller(q2)] :
        q1 \in RaceQueries, q2 \in RaceQueries}
    \cup {[p \in Procs |-> IF p = 1 THEN RetrieveCaller(q)
                                     ELSE InitializeDbCaller(RaceDocuments)] :
             q \in RaceQueries}

RaceInit ==
    /\ ChunkIdle /\ MainIdle /\ BackendIdle /\ ChatIdle /\ JourneyInit
    /\ procs \in RaceStarts

\* what every step of a caller leaves alone
RaceFrame ==
    UNCHANGED <<clientOk, docsDir, last, changed, ingested, latestOk,
                chunkVars, backendVars, chatVars, journeyVars>>

\* the except clause of retrieve_relevant_chunks (lines 233-240)
RetrieveFailed(proc) ==
    [proc EXCEPT !.pc = "done", !.value = TroubleFallback]

\* the except clause of initialize_db (lines 136-138) and where its caller
\* goes on: the seeding retrieval at line 199
InitializeDbReturns(proc, ok) ==
    IF proc.kind = "retrieve"
    THEN [proc EXCEPT !.pc = "r_reget", !.seeded = ok]
    ELSE [proc EXCEPT !.pc = "done", !.value = <<>>, !.seeded = FALSE]

\* client.get_collection at lines 145, 199 and 112
GetCollection(p) ==
    /\ procs[p].pc \in {"r_get", "r_reget", "s_get", "i_get"}
    /\ procs' = [procs EXCEPT ![p] =
          CASE @.pc = "r_get" ->
                  [@ EXCEPT !.pc = IF collExists THEN "r_query" ELSE "r_create"]
            [] @.pc = "r_reget" ->
                  IF collExists THEN [@ EXCEPT !.pc = "r_query"]
                  ELSE RetrieveFailed(@)
            [] @.pc = "s_get" ->
                  [@ EXCEPT !.pc = IF collExists THEN "s_add" ELSE "s_create"]
            [] @.pc = "i_get" ->
                  [@ EXCEPT !.pc = IF collExists THEN "i_add" ELSE "i_create"]]
    /\ UNCHANGED <<collExists, index>>
    /\ RaceFrame

\* client.create_collection at lines 149 and 115; it raises when the
\* collection exists by now
CreateCollection(p) ==
    /\ procs[p].pc \in {"r_create", "s_create", "i_create"}
    /\ procs' = [procs EXCEPT ![p] =
          CASE @.pc = "r_create" ->
                  IF collExists THEN RetrieveFailed(@)
                  ELSE [@ EXCEPT !.pc = "s_get"]
            [] @.pc = "s_create" ->
                  IF collExists THEN InitializeDbReturns(@, FALSE)
                  ELSE [@ EXCEPT !.pc = "s_add"]
            [] @.pc = "i_create" ->
                  IF collExists THEN InitializeDbReturns(@, FALSE)
                  ELSE [@ EXCEPT !.pc = "i_add"]]
    /\ collExists' = TRUE
    /\ UNCHANGED index
    /\ RaceFrame

\* collection.add at line 127, with the default documents (called from
\* line 196) or with the caller's documents
CollectionAdd(p, policy) ==
    /\ procs[p].pc \in {"s_add", "i_add"}
    /\ \E added \in {collection_add(index,
                                     EntriesOf(IF procs[p].pc = "s_add"
                                               THEN default_docs
                                               ELSE procs[p].documents),
                                     policy)} :
          /\ index' = added.index
          /\ procs' = [procs EXCEPT ![p] = InitializeDbReturns(@, ~added.raised)]
    /\ UNCHANGED collExists
    /\ RaceFrame

\* lines 202-232: the query and the choice of what to return
CollectionQuery(p, shape) ==
    /\ procs[p].pc = "r_query"
    /\ \E res \in {collection_query(index, Embed(procs[p].query), DefaultTopK,
                                     shape, FALSE)} :
          procs' = [procs EXCEPT ![p] =
              IF res.raised THEN RetrieveFailed(@)
              ELSE [@ EXCEPT !.pc = "done",
                             !.value = IF res.documents # <<>>
                                       THEN res.documents[1]
                                       ELSE KeywordFallback(procs[p].query)]]
    /\ UNCHANGED <<collExists, index>>
    /\ RaceFrame

GetCollectionStep == \E p \in Procs : GetCollection(p)
CreateCollectionStep == \E p \in Procs : CreateCollection(p)
CollectionAddStep == \E p \in Procs, policy \in AddPolicies : CollectionAdd(p, policy)
CollectionQueryStep == \E p \in Procs, shape \in EmptyShapes : CollectionQuery(p, shape)

RaceNext ==
    \/ GetCollectionStep
    \/ CreateCollectionStep
    \/ CollectionAddStep
    \/ CollectionQueryStep

SpecRace == RaceInit /\ [][RaceNext]_vars

\* the entries of the index that carry a default document's id
DefaultEntries ==
    {i \in 1..Len(index) :
        \E k \in 1..Len(default_docs) : index[i].id = default_docs[k].id}

\* no caller raised, the default documents went in at most once
RaceSeedsOnce ==
    /\ \A p \in Procs : ~procs[p].raised
    /\ Cardinality({p \in Procs : procs[p].seeded}) <= 1
    /\ Cardinality(DefaultEntries) <= Len(default_docs)

\* C25: under every interleaving of the two callers each finished retrieval
\* returned a non-empty sequence, no caller raised, and the default
\* documents were seeded at most once
ColdRaceSafe ==
    /\ RaceSeedsOnce
    /\ \A p \in Procs :
           (procs[p].kind = "retrieve" /\ procs[p].pc = "done")
               => procs[p].value # <<>>

====
